---- MODULE Spec2Model ----
(***************************************************************************)
(* The ActivityLog model of src/db/models/ActivityLogs.js: the mongoose    *)
(* schema (defaults, required fields, enumerations), the static helpers of *)
(* class ActivityLog, and callers that run them one store call at a time.  *)
(***************************************************************************)
EXTENDS Integers, Sequences, FiniteSets, TLC

\* An absent value: undefined, null or a field that was never set.
None == "none"

(* ------------------------------ bounds --------------------------------- *)

\* The store holds at most MaxRecords documents when a lone caller runs the
\* deduplicating operations (SpecSeq, SpecRecord), and at most MaxBusyRecords
\* under the other specifications.
MaxRecords == 3
MaxBusyRecords == 2
\* customer.companyIds holds at most MaxCompanies ids.
MaxCompanies == 2

(* ------------------- ../../data/constants (imported) ------------------- *)

ACTIVITY_TYPES_ALL ==
  {"InternalNote", "ConversationMessage", "Segment", "Customer", "Company"}
ACTIVITY_ACTIONS_ALL == {"Create", "Update"}
ACTIVITY_PERFORMER_TYPES_ALL == {"System", "User", "Customer"}
COC_CONTENT_TYPES_ALL == {"Customer", "Company"}

(* ------------------------------ values --------------------------------- *)

\* An entity handed to a helper: a message, a customer, a company, a segment,
\* an internal note or a user. null is the JavaScript null/undefined argument.
Ent(null, id, content, contentType, contentTypeId, companyIds) ==
  [null |-> null, id |-> id, content |-> content, contentType |-> contentType,
   contentTypeId |-> contentTypeId, companyIds |-> companyIds]
NullEnt == Ent(TRUE, None, None, None, None, <<>>)

Performer(type, id) == [null |-> FALSE, type |-> type, id |-> id]
NullPerformer == [null |-> TRUE, type |-> None, id |-> None]

ActivityOf(type, action, content, id) ==
  [type |-> type, action |-> action, content |-> content, id |-> id]
CocOf(id, type) == [id |-> id, type |-> type]

\* The argument of createDoc: { performer, ...doc }.
DocArg(performer, activity, coc) ==
  [performer |-> performer, activity |-> activity, coc |-> coc]
NoDocArg ==
  DocArg(NullPerformer, ActivityOf(None, None, None, None), CocOf(None, None))

\* findOne's answer when nothing matches, and the value of a call that
\* returned no document.
NoRecord ==
  [id |-> 0, activity |-> ActivityOf(None, None, None, None),
   performedBy |-> [type |-> None, id |-> None], coc |-> CocOf(None, None),
   createdAt |-> 0]

(* ------------------------------ inputs --------------------------------- *)

RECURSIVE SeqsUpTo(_, _)
SeqsUpTo(S, n) ==
  IF n = 0 THEN {<<>>}
  ELSE LET shorter == SeqsUpTo(S, n - 1)
       IN shorter \cup {Append(s, x) : s \in {t \in shorter : Len(t) = n - 1}, x \in S}

\* The values of customer.companyIds: the ids may repeat, and an element may
\* be undefined.
CompanyIdLists == SeqsUpTo({"k1", "k2", None}, MaxCompanies)

Message(id) == Ent(FALSE, id, "text", None, None, <<>>)
Customer(id, companyIds) == Ent(FALSE, id, "name", None, None, companyIds)
Company(id) == Ent(FALSE, id, "name", None, None, <<>>)
Segment(id, contentType) == Ent(FALSE, id, "text", contentType, None, <<>>)
InternalNote(id, contentType, contentTypeId) ==
  Ent(FALSE, id, "text", contentType, contentTypeId, <<>>)
User(id) == Ent(FALSE, id, "name", None, None, <<>>)

\* The arguments the callers of a specification draw from; cap bounds the
\* store, and track tells whether the caller's previous call is remembered.
Inputs(messages, customers, segments, targets, notes, users, registered, docs, cap, track) ==
  [messages |-> messages, customers |-> customers, segments |-> segments,
   targets |-> targets, notes |-> notes, users |-> users,
   registered |-> registered, docs |-> docs, cap |-> cap, track |-> track]

ValidActivity == ActivityOf("ConversationMessage", "Create", "text", "m1")
ValidCoc == CocOf("c1", "Customer")

\* Arguments of createDoc: every kind of performer, and activity and coc
\* objects that break one rule of the schema each.
DocArgs ==
  {DocArg(p, ValidActivity, ValidCoc) :
     p \in {NullPerformer, Performer("Customer", None), Performer(None, "u1"),
            Performer("Robot", None)}}
  \cup {DocArg(NullPerformer, a, ValidCoc) :
          a \in {ActivityOf("Deal", "Create", "text", "m1"),
                 ActivityOf("ConversationMessage", "Delete", "text", "m1"),
                 ActivityOf(None, "Create", None, "m1")}}
  \cup {DocArg(NullPerformer, ValidActivity, c) :
          c \in {CocOf(None, "Customer"), CocOf("c1", None), CocOf("c1", "Lead")}}

\* Arguments of createDoc that write a document with a dedup key.
KeyedDocArgs ==
  {DocArg(Performer("Customer", None), ValidActivity, ValidCoc),
   DocArg(NullPerformer, ActivityOf("Segment", "Create", "text", "s1"), ValidCoc)}

\* A lone caller of createDoc and of the two deduplicating operations.
SeqInputs ==
  Inputs({Message("m1")},
         {NullEnt, Customer(None, <<"k1">>)}
           \cup {Customer("c1", l) : l \in CompanyIdLists},
         {Segment("s1", t) : t \in {"Customer", "Lead"}},
         {NullEnt, Company("c1"), Company(None)},
         {}, {}, {},
         KeyedDocArgs,
         MaxRecords, TRUE)

\* A lone caller of the operations that make a single insert.
LogInputs ==
  Inputs({}, {},
         {Segment("s1", t) : t \in {"Customer", "Lead"}},
         {NullEnt, Company("c1"), Company(None)},
         {InternalNote("n1", "Customer", "c1"), InternalNote("n1", "Lead", "c1"),
          InternalNote("n1", "Customer", None)},
         {NullEnt, User("u1"), User(None)},
         {Company("c1"), Company(None)},
         DocArgs,
         MaxBusyRecords, TRUE)

\* A lone caller of the five record operations.
RecordInputs ==
  Inputs({Message("m1")},
         {NullEnt, Customer("c1", <<>>), Customer("c1", <<"k1">>),
          Customer("c1", <<"k1", "k1">>), Customer("c1", <<"k1", "k2">>),
          Customer("c1", <<None>>)},
         {Segment("s1", t) : t \in {"Customer", "Lead"}},
         {NullEnt, Company("c1")},
         {InternalNote("n1", "Customer", "c1"), InternalNote("n1", "Lead", "c1")},
         {NullEnt, User("u1")},
         {Company("c1"), Company(None)},
         {},
         MaxRecords, FALSE)

\* Callers that run side by side.
RaceInputs ==
  Inputs({Message("m1")},
         {NullEnt, Customer("c1", <<>>), Customer("c1", <<"k1">>)},
         {Segment("s1", "Customer")},
         {NullEnt, Company("c1")},
         {InternalNote("n1", "Customer", "c1")},
         {User("u1")},
         {Company("c1")},
         {DocArg(NullPerformer, ValidActivity, ValidCoc),
          DocArg(NullPerformer, ValidActivity, CocOf("c1", None))},
         MaxBusyRecords, FALSE)

Procs == {"p1", "p2"}

(* ------------------------------- state --------------------------------- *)

VARIABLES
  store,  \* the activity_logs collection, in insertion order
  proc,   \* per caller: the call it is in, or the call it finished last
  prev    \* the call the sequential caller finished just before its current
          \* one, when the current one repeats it with the same arguments

vars == <<store, proc, prev>>

\* One store call of a helper: kind is "find" or "create", idx the position
\* of its coc target (1..N the companies, N+1 the customer), rid the _id of
\* the document found or created (0: none).
Access(kind, idx, ok, rid) == [kind |-> kind, idx |-> idx, ok |-> ok, rid |-> rid]

Call(op, a, b, doc) ==
  [op |-> op, pc |-> "start", a |-> a, b |-> b, doc |-> doc, i |-> 0,
   log |-> <<>>, ret |-> NoRecord, err |-> None]
NoCall == [Call("none", NullEnt, NullEnt, NoDocArg) EXCEPT !.pc = "idle"]

CanCall(p) == proc[p].pc \in {"idle", "done"}

Init ==
  /\ store = <<>>
  /\ proc = [p \in Procs |-> NoCall]
  /\ prev = NoCall

(* --------------------- the schema and the store ------------------------ *)

\* The document mongoose builds from the object handed to create: the
\* schema's defaults fill the paths left undefined (performedBy.type,
\* activity.content, createdAt) and _id is generated. Date.now is the
\* logical time t of the write.
WithDefaults(d, t, n) ==
  [id |-> n,
   activity |-> [d.activity EXCEPT !.content = IF @ = None THEN "{}" ELSE @],
   performedBy |-> [d.performedBy EXCEPT !.type = IF @ = None THEN "System" ELSE @],
   coc |-> d.coc,
   createdAt |-> t]

\* A faulty variant of Valid: coc.id is no longer required.
ValidCocIdOptional(rec) ==
  /\ rec.activity.type \in ACTIVITY_TYPES_ALL
  /\ rec.activity.action \in ACTIVITY_ACTIONS_ALL
  /\ rec.performedBy.type \in ACTIVITY_PERFORMER_TYPES_ALL
  /\ rec.coc.type \in COC_CONTENT_TYPES_ALL

\* The schema's validators: required paths are set and enumerated paths hold
\* a member of their enumeration.
Valid(rec) ==
  /\ rec.activity.type \in ACTIVITY_TYPES_ALL
  /\ rec.activity.action \in ACTIVITY_ACTIONS_ALL
  /\ rec.performedBy.type \in ACTIVITY_PERFORMER_TYPES_ALL
  /\ rec.coc.id # None
  /\ rec.coc.type \in COC_CONTENT_TYPES_ALL

\* A faulty variant of StoreInsert: a document whose activity, performer and coc are
\* already stored is not saved again.
StoreInsertUnique(s, rec) ==
  IF \E j \in 1 .. Len(s) :
       /\ s[j].activity = rec.activity
       /\ s[j].performedBy = rec.performedBy
       /\ s[j].coc = rec.coc
    THEN s
    ELSE Append(s, rec)

\* A faulty variant of StoreInsert: the new document takes the place of the newest one.
StoreInsertOverwrite(s, rec) ==
  IF s = <<>> THEN <<rec>> ELSE [s EXCEPT ![Len(s)] = rec]

\* The collection after a valid document is saved.
StoreInsert(s, rec) == Append(s, rec)

\* The _id given to the next document: unique, since nothing is ever deleted.
NewId(s) == Len(s) + 1

\* Date.now at the next write: the clock never runs backwards.
DateNow(s) == Len(s) + 1

(* ---------------------------- pure helpers ----------------------------- *)

\* A faulty variant of createDoc: the performer is dropped.
createDocAlwaysSystem(performer, activity, coc) ==
  [performedBy |-> [type |-> "System", id |-> None],
   activity |-> activity, coc |-> coc]

\* createDoc: what is handed to this.create.
createDoc(performer, activity, coc) ==
  [performedBy |-> IF ~performer.null
                     THEN [type |-> performer.type, id |-> performer.id]
                     ELSE [type |-> "System", id |-> None],
   activity |-> activity, coc |-> coc]

\* A faulty variant of InternalNoteDoc: the log is attached to the note, not to the
\* note's customer or company.
InternalNoteDocOwnId(internalNote, user) ==
  createDoc(Performer("User", user.id),
            ActivityOf("InternalNote", "Create", internalNote.content, internalNote.id),
            CocOf(internalNote.id, internalNote.contentType))

InternalNoteDoc(internalNote, user) ==
  createDoc(Performer("User", user.id),
            ActivityOf("InternalNote", "Create", internalNote.content, internalNote.id),
            CocOf(internalNote.contentTypeId, internalNote.contentType))

\* A faulty variant of cocFindOne: the filter asks for a User performer.
cocFindOneUserPerformer(s, messageId, cocId, cocType) ==
  {i \in 1 .. Len(s) :
     /\ s[i].activity.type = "ConversationMessage"
     /\ s[i].activity.action = "Create"
     /\ s[i].activity.id = messageId
     /\ s[i].coc.type = cocType
     /\ s[i].performedBy.type = "User"
     /\ s[i].coc.id = cocId}

\* The positions of the documents matching cocFindOne's filter.
cocFindOne(s, messageId, cocId, cocType) ==
  {i \in 1 .. Len(s) :
     /\ s[i].activity.type = "ConversationMessage"
     /\ s[i].activity.action = "Create"
     /\ s[i].activity.id = messageId
     /\ s[i].coc.type = cocType
     /\ s[i].performedBy.type = "Customer"
     /\ s[i].coc.id = cocId}

cocCreate(messageId, content, cocId, cocType) ==
  createDoc(Performer("Customer", None),
            ActivityOf("ConversationMessage", "Create", content, messageId),
            CocOf(cocId, cocType))

\* A faulty variant of CustomerMissing: a customer without _id passes.
CustomerMissingNullOnly(customer) == customer.null

\* createConversationMessageLog's guard.
CustomerMissing(customer) == customer.null \/ (~customer.null /\ customer.id = None)

\* A faulty variant of SegmentFindOne: the filter asks for the customer's own type.
SegmentFindOneByCustomerType(s, segment, customer) ==
  {i \in 1 .. Len(s) :
     /\ s[i].activity.type = "Segment"
     /\ s[i].activity.action = "Create"
     /\ s[i].activity.id = segment.id
     /\ s[i].coc.type = customer.contentType
     /\ s[i].coc.id = customer.id}

\* The positions of the documents matching createSegmentLog's filter.
SegmentFindOne(s, segment, customer) ==
  {i \in 1 .. Len(s) :
     /\ s[i].activity.type = "Segment"
     /\ s[i].activity.action = "Create"
     /\ s[i].activity.id = segment.id
     /\ s[i].coc.type = segment.contentType
     /\ s[i].coc.id = customer.id}

SegmentDoc(segment, customer) ==
  createDoc(NullPerformer,
            ActivityOf("Segment", "Create", segment.content, segment.id),
            CocOf(customer.id, segment.contentType))

\* user && user._id && {type: USER, id: user._id} || null
RegistrationPerformer(user) ==
  IF ~user.null /\ user.id # None THEN Performer("User", user.id) ELSE NullPerformer

CustomerRegistrationDoc(customer, user) ==
  createDoc(RegistrationPerformer(user),
            ActivityOf("Customer", "Create", customer.content, customer.id),
            CocOf(customer.id, "Customer"))

CompanyRegistrationDoc(company, user) ==
  createDoc(RegistrationPerformer(user),
            ActivityOf("Company", "Create", company.content, company.id),
            CocOf(company.id, "Company"))

(* ------------------------- steps of a call ----------------------------- *)

\* Whether call d repeats call c: the same operation on the same arguments.
SameCall(c, d) == c.op = d.op /\ c.a = d.a /\ c.b = d.b /\ c.doc = d.doc

\* prev once caller p starts call c.
Track(p, c, in) ==
  IF ~in.track THEN prev
  ELSE IF proc[p].pc = "done" /\ SameCall(proc[p], c) THEN proc[p] ELSE NoCall

\* The call after an exception thrown before any store call.
Thrown(c, e) == [c EXCEPT !.pc = "done", !.err = e]

\* A faulty variant of Failed: the rejection is swallowed and the call goes on with
\* its next lookup.
FailedSwallowed(c, kind, e) ==
  [c EXCEPT !.pc = IF c.op = "createConversationMessageLog" /\ c.i <= Len(c.b.companyIds)
                     THEN "find" ELSE "done",
            !.i = IF c.op = "createConversationMessageLog" /\ c.i <= Len(c.b.companyIds)
                    THEN c.i + 1 ELSE c.i,
            !.log = Append(@, Access(kind, c.i, FALSE, 0)),
            !.err = e]

\* The call after one of its store calls was rejected: the rejection leaves
\* the awaiting helper at once and reaches the caller.
Failed(c, kind, e) ==
  [c EXCEPT !.pc = "done", !.log = Append(@, Access(kind, c.i, FALSE, 0)), !.err = e]

\* The call after findOne answered (rid = 0: nothing found).
Looked(c, rid, pc, ret) ==
  [c EXCEPT !.pc = pc, !.log = Append(@, Access("find", c.i, TRUE, rid)), !.ret = ret]

\* The call after create saved rec.
Saved(c, rec, pc, ret) ==
  [c EXCEPT !.pc = pc, !.log = Append(@, Access("create", c.i, TRUE, rec.id)), !.ret = ret]

\* this.create(d) issued by call c of caller p: the document is validated and
\* saved, or the store rejects the call. A saved document is what the call
\* returns when returned holds.
create(p, c, d, pc, returned, cap) ==
  LET rec == WithDefaults(d, DateNow(store), NewId(store)) IN
  /\ Len(store) < cap
  /\ \/ /\ Valid(rec)
        /\ store' = StoreInsert(store, rec)
        /\ proc' = [proc EXCEPT ![p] = Saved(c, rec, pc, IF returned THEN rec ELSE NoRecord)]
     \/ /\ ~Valid(rec)
        /\ store' = store
        /\ proc' = [proc EXCEPT ![p] = Failed(c, "create", "ValidationError")]
     \/ /\ store' = store
        /\ proc' = [proc EXCEPT ![p] = Failed(c, "create", "StoreUnavailable")]

(* --------------------------- the operations ---------------------------- *)

\* ActivityLog.createDoc called directly.
createDocCall(p, in) ==
  /\ CanCall(p)
  /\ \E d \in in.docs :
       LET c == [Call("createDoc", NullEnt, NullEnt, d) EXCEPT !.i = 1] IN
       /\ create(p, c, createDoc(d.performer, d.activity, d.coc), "done", TRUE, in.cap)
       /\ prev' = Track(p, c, in)

createInternalNoteLog(p, in) ==
  /\ CanCall(p)
  /\ \E internalNote \in in.notes, user \in in.users :
       LET c == [Call("createInternalNoteLog", internalNote, user, NoDocArg) EXCEPT !.i = 1] IN
       /\ IF user.null
            THEN /\ proc' = [proc EXCEPT ![p] = Thrown(c, "TypeError")]
                 /\ store' = store
            ELSE create(p, c, InternalNoteDoc(internalNote, user), "done", TRUE, in.cap)
       /\ prev' = Track(p, c, in)

createCustomerRegistrationLog(p, in) ==
  /\ CanCall(p)
  /\ \E customer \in in.registered, user \in in.users :
       LET c == [Call("createCustomerRegistrationLog", customer, user, NoDocArg)
                   EXCEPT !.i = 1] IN
       /\ create(p, c, CustomerRegistrationDoc(customer, user), "done", TRUE, in.cap)
       /\ prev' = Track(p, c, in)

createCompanyRegistrationLog(p, in) ==
  /\ CanCall(p)
  /\ \E company \in in.registered, user \in in.users :
       LET c == [Call("createCompanyRegistrationLog", company, user, NoDocArg)
                   EXCEPT !.i = 1] IN
       /\ create(p, c, CompanyRegistrationDoc(company, user), "done", TRUE, in.cap)
       /\ prev' = Track(p, c, in)

\* The coc target createConversationMessageLog is at: the i-th company, then
\* the customer itself.
Target(c) ==
  IF c.i <= Len(c.b.companyIds)
    THEN CocOf(c.b.companyIds[c.i], "Company")
    ELSE CocOf(c.b.id, "Customer")

\* createConversationMessageLog up to its first store call.
createConversationMessageLog(p, in) ==
  /\ CanCall(p)
  /\ \E message \in in.messages, customer \in in.customers :
       LET c == Call("createConversationMessageLog", message, customer, NoDocArg) IN
       /\ proc' = [proc EXCEPT ![p] =
                     IF CustomerMissing(customer)
                       THEN Thrown(c, "InvalidArgument")
                       ELSE [c EXCEPT !.pc = "find", !.i = 1]]
       /\ prev' = Track(p, c, in)
  /\ store' = store

\* await this.cocFindOne(...) for the current target.
ConversationFind(p) ==
  LET c == proc[p]
      last == c.i > Len(c.b.companyIds)
      found == cocFindOne(store, c.a.id, Target(c).id, Target(c).type)
  IN /\ c.op = "createConversationMessageLog"
     /\ c.pc = "find"
     /\ UNCHANGED <<store, prev>>
     /\ \/ \E k \in found :
             proc' = [proc EXCEPT ![p] =
                        IF last THEN Looked(c, store[k].id, "done", NoRecord)
                        ELSE [Looked(c, store[k].id, "find", NoRecord) EXCEPT !.i = c.i + 1]]
        \/ /\ found = {}
           /\ proc' = [proc EXCEPT ![p] = Looked(c, 0, "create", NoRecord)]
        \/ proc' = [proc EXCEPT ![p] = Failed(c, "find", "StoreUnavailable")]

\* this.cocCreate(...) for the current target.
ConversationCreate(p, in) ==
  LET c == proc[p]
      last == c.i > Len(c.b.companyIds)
      d == cocCreate(c.a.id, c.a.content, Target(c).id, Target(c).type)
  IN /\ c.op = "createConversationMessageLog"
     /\ c.pc = "create"
     /\ create(p, c, d, IF last THEN "done" ELSE "next", last, in.cap)
     /\ prev' = prev

\* The for loop moves to the next company id.
ConversationNext(p) ==
  /\ proc[p].op = "createConversationMessageLog"
  /\ proc[p].pc = "next"
  /\ proc' = [proc EXCEPT ![p].pc = "find", ![p].i = @ + 1]
  /\ UNCHANGED <<store, prev>>

\* createSegmentLog up to its first store call.
createSegmentLog(p, in) ==
  /\ CanCall(p)
  /\ \E segment \in in.segments, customer \in in.targets :
       LET c == Call("createSegmentLog", segment, customer, NoDocArg) IN
       /\ proc' = [proc EXCEPT ![p] =
                     IF customer.null
                       THEN Thrown(c, "InvalidArgument")
                       ELSE [c EXCEPT !.pc = "find", !.i = 1]]
       /\ prev' = Track(p, c, in)
  /\ store' = store

\* await this.findOne(...)
SegmentFind(p) ==
  LET c == proc[p]
      found == SegmentFindOne(store, c.a, c.b)
  IN /\ c.op = "createSegmentLog"
     /\ c.pc = "find"
     /\ UNCHANGED <<store, prev>>
     /\ \/ \E k \in found :
             proc' = [proc EXCEPT ![p] = Looked(c, store[k].id, "done", store[k])]
        \/ /\ found = {}
           /\ proc' = [proc EXCEPT ![p] = Looked(c, 0, "create", NoRecord)]
        \/ proc' = [proc EXCEPT ![p] = Failed(c, "find", "StoreUnavailable")]

\* return this.createDoc(...)
SegmentCreate(p, in) ==
  /\ proc[p].op = "createSegmentLog"
  /\ proc[p].pc = "create"
  /\ create(p, proc[p], SegmentDoc(proc[p].a, proc[p].b), "done", TRUE, in.cap)
  /\ prev' = prev

(* -------------------------- specifications ----------------------------- *)

\* Callers of all six operations whose calls interleave at the granularity
\* of store calls.
Next ==
  \E p \in Procs :
    \/ createDocCall(p, RaceInputs)
    \/ createInternalNoteLog(p, RaceInputs)
    \/ createCustomerRegistrationLog(p, RaceInputs)
    \/ createCompanyRegistrationLog(p, RaceInputs)
    \/ createConversationMessageLog(p, RaceInputs)
    \/ ConversationFind(p)
    \/ ConversationCreate(p, RaceInputs)
    \/ ConversationNext(p)
    \/ createSegmentLog(p, RaceInputs)
    \/ SegmentFind(p)
    \/ SegmentCreate(p, RaceInputs)
Spec == Init /\ [][Next]_vars

\* One caller, each call completing before the next starts, of createDoc and
\* of the two deduplicating operations.
NextSeq ==
  \/ createDocCall("p1", SeqInputs)
  \/ createConversationMessageLog("p1", SeqInputs)
  \/ ConversationFind("p1")
  \/ ConversationCreate("p1", SeqInputs)
  \/ ConversationNext("p1")
  \/ createSegmentLog("p1", SeqInputs)
  \/ SegmentFind("p1")
  \/ SegmentCreate("p1", SeqInputs)
SpecSeq == Init /\ [][NextSeq]_vars

\* One caller of the operations that make a single insert.
NextLog ==
  \/ createDocCall("p1", LogInputs)
  \/ createInternalNoteLog("p1", LogInputs)
  \/ createCustomerRegistrationLog("p1", LogInputs)
  \/ createCompanyRegistrationLog("p1", LogInputs)
  \/ createSegmentLog("p1", LogInputs)
  \/ SegmentFind("p1")
  \/ SegmentCreate("p1", LogInputs)
SpecLog == Init /\ [][NextLog]_vars

\* One caller that uses the five record operations only.
NextRecord ==
  \/ createInternalNoteLog("p1", RecordInputs)
  \/ createCustomerRegistrationLog("p1", RecordInputs)
  \/ createCompanyRegistrationLog("p1", RecordInputs)
  \/ createConversationMessageLog("p1", RecordInputs)
  \/ ConversationFind("p1")
  \/ ConversationCreate("p1", RecordInputs)
  \/ ConversationNext("p1")
  \/ createSegmentLog("p1", RecordInputs)
  \/ SegmentFind("p1")
  \/ SegmentCreate("p1", RecordInputs)
SpecRecord == Init /\ [][NextRecord]_vars

(* ------------------------- reading a call ------------------------------ *)

Done(c) == c.pc = "done"
Returned(c) == c.pc = "done" /\ c.err = None

\* The _ids of the documents a call has inserted, and how many store calls
\* of each kind it has made.
InsertedIds(c) ==
  {c.log[j].rid : j \in {k \in 1 .. Len(c.log) : c.log[k].kind = "create" /\ c.log[k].ok}}
Inserts(c) == Cardinality(InsertedIds(c))

\* The coc targets of a createConversationMessageLog call.
Targets(c) ==
  {CocOf(c.b.companyIds[j], "Company") : j \in 1 .. Len(c.b.companyIds)}
    \cup {CocOf(c.b.id, "Customer")}

\* The stored documents with the conversation-message dedup key of message
\* id m and target t, and those with the segment dedup key.
MessageLogs(m, t) ==
  {j \in 1 .. Len(store) :
     /\ store[j].activity.type = "ConversationMessage"
     /\ store[j].activity.action = "Create"
     /\ store[j].activity.id = m
     /\ store[j].performedBy.type = "Customer"
     /\ store[j].coc = t}
SegmentLogs(g, t) ==
  {j \in 1 .. Len(store) :
     /\ store[j].activity.type = "Segment"
     /\ store[j].activity.action = "Create"
     /\ store[j].activity.id = g
     /\ store[j].coc = t}

\* The lone caller's current call.
cur == proc["p1"]

\* The caller has just completed the same call twice in a row.
Twice(op) ==
  /\ cur.op = op
  /\ prev.op = op
  /\ Returned(prev)
  /\ Returned(cur)

(* ------------------------------ claims --------------------------------- *)

\* The documents matching target t that the two calls prev and cur inserted.
InsertedFor(t) ==
  {j \in MessageLogs(cur.a.id, t) : store[j].id \in InsertedIds(prev) \cup InsertedIds(cur)}

\* C1 as stated: from any store state, after createConversationMessageLog has
\* returned twice in a row for the same message and customer, the store holds
\* exactly one document with the dedup key of each coc target, the first call
\* inserted at most N+1 documents and the second inserted none.
C1_AnyStoreExactlyOne ==
  Twice("createConversationMessageLog") =>
    /\ \A t \in Targets(cur) : Cardinality(MessageLogs(cur.a.id, t)) = 1
    /\ Inserts(prev) <= Len(cur.b.companyIds) + 1
    /\ Inserts(cur) = 0

\* C1 as amended: after the two calls every coc target has at least one
\* document with its dedup key, and exactly one when the store held at most
\* one before the first call; the first call inserted at most N+1 documents,
\* one for each target that had none, and the second call inserted none.
C1_SequentialIdempotent ==
  Twice("createConversationMessageLog") =>
    /\ \A t \in Targets(cur) :
         LET n == Cardinality(MessageLogs(cur.a.id, t))
             added == Cardinality(InsertedFor(t))
         IN /\ n >= 1
            /\ added = IF n - added = 0 THEN 1 ELSE 0
            /\ (n - added <= 1 => n = 1)
    /\ Inserts(prev) <= Len(cur.b.companyIds) + 1
    /\ Inserts(cur) = 0

\* C1's case: the first call inserted a document for two distinct companies
\* and for the customer, and the repeated call has returned.
C1_Witness ==
  /\ Twice("createConversationMessageLog")
  /\ Len(cur.b.companyIds) = 2
  /\ Inserts(prev) = 3
  /\ Inserts(cur) = 0

\* C2: createSegmentLog returning twice in a row for the same segment and
\* target, the first call having found no matching document: the first call
\* inserted exactly one document, with the segment's activity, the target's
\* coc and the System performer, and returned it; the second call inserted
\* nothing and returned that same document, which is stored unchanged.
C2_SegmentLogIdempotent ==
  (Twice("createSegmentLog") /\ prev.log[1].rid = 0) =>
    /\ Inserts(prev) = 1
    /\ Inserts(cur) = 0
    /\ prev.ret.id \in InsertedIds(prev)
    /\ prev.ret.activity =
         ActivityOf("Segment", "Create", cur.a.content, cur.a.id)
    /\ prev.ret.coc = CocOf(cur.b.id, cur.a.contentType)
    /\ prev.ret.performedBy = [type |-> "System", id |-> None]
    /\ cur.ret = prev.ret
    /\ \E j \in 1 .. Len(store) : store[j] = prev.ret
    /\ Cardinality(SegmentLogs(cur.a.id, prev.ret.coc)) = 1

\* C2's case: the second of two identical createSegmentLog calls has returned
\* the document the first one inserted.
C2_Witness ==
  /\ Twice("createSegmentLog")
  /\ prev.log[1].rid = 0
  /\ cur.ret.id \in InsertedIds(prev)

\* C3: with calls of the five record operations that never overlap, no two
\* stored documents share a conversation-message dedup key (with a Customer
\* performer) and no two share a segment dedup key.
C3_DedupKeysUnique ==
  \A j, k \in 1 .. Len(store) :
    (j # k /\ store[j].activity = [store[k].activity EXCEPT !.content = store[j].activity.content]
           /\ store[j].activity.action = "Create"
           /\ store[j].coc = store[k].coc) =>
      /\ ~(/\ store[j].activity.type = "ConversationMessage"
           /\ store[j].performedBy.type = "Customer"
           /\ store[k].performedBy.type = "Customer")
      /\ store[j].activity.type # "Segment"

\* C3's case: the store holds a conversation-message log and a segment log,
\* and a call has just returned after finding its document already there.
C3_Witness ==
  /\ \E j \in 1 .. Len(store) : store[j].activity.type = "ConversationMessage"
  /\ \E j \in 1 .. Len(store) : store[j].activity.type = "Segment"
  /\ Returned(cur)
  /\ Inserts(cur) = 0
  /\ cur.op \in {"createSegmentLog", "createConversationMessageLog"}

\* Call c looked its idx-th target up, found nothing and then inserted it.
MissedThenInserted(c, idx) ==
  /\ \E j \in 1 .. Len(c.log) :
       c.log[j].kind = "find" /\ c.log[j].idx = idx /\ c.log[j].ok /\ c.log[j].rid = 0
  /\ \E j \in 1 .. Len(c.log) :
       c.log[j].kind = "create" /\ c.log[j].idx = idx /\ c.log[j].ok

\* The documents with the dedup key of the idx-th target of call c.
KeyLogs(c, idx) ==
  IF c.op = "createSegmentLog"
    THEN SegmentLogs(c.a.id, CocOf(c.b.id, c.a.contentType))
    ELSE MessageLogs(c.a.id, Target([c EXCEPT !.i = idx]))

\* Two callers ran the same deduplicating call side by side, both were told
\* "not found" for the idx-th target and both inserted it.
Raced(idx) ==
  /\ proc["p1"].op \in {"createSegmentLog", "createConversationMessageLog"}
  /\ SameCall(proc["p1"], proc["p2"])
  /\ MissedThenInserted(proc["p1"], idx)
  /\ MissedThenInserted(proc["p2"], idx)

\* C4: when two interleaved calls with the same dedup key have both observed
\* "not found" and both inserted, the store holds two documents with that
\* key; C4_Witness is the execution in which this happens.
C4_CheckThenInsertRace ==
  \A idx \in 1 .. MaxCompanies + 1 :
    Raced(idx) => Cardinality(KeyLogs(proc["p1"], idx)) >= 2

\* C4's case: both callers have returned from createSegmentLog for the same
\* segment and target and the store ends with two documents sharing the key.
C4_Witness ==
  /\ Raced(1)
  /\ proc["p1"].op = "createSegmentLog"
  /\ Returned(proc["p1"])
  /\ Returned(proc["p2"])
  /\ Cardinality(KeyLogs(proc["p1"], 1)) = 2

\* Call c was given no customer, a customer without _id, or no segment target.
Unsupplied(c) ==
  \/ c.op = "createConversationMessageLog" /\ (c.b.null \/ c.b.id = None)
  \/ c.op = "createSegmentLog" /\ c.b.null

\* C5: a call given no customer (or a customer without _id, or no segment
\* target) ends with the InvalidArgument error in the very step that starts
\* it, without any store call, and leaves the stored documents as they were.
C5_PreconditionFailuresTouchNothing ==
  [][\A p \in Procs :
       (proc'[p] # proc[p] /\ Unsupplied(proc'[p])) =>
         /\ Done(proc'[p])
         /\ proc'[p].err = "InvalidArgument"
         /\ proc'[p].log = <<>>
         /\ store' = store]_vars

\* C5's case: createConversationMessageLog has failed for a customer without
\* _id while the store holds documents.
C5_Witness ==
  /\ cur.op = "createConversationMessageLog"
  /\ ~cur.b.null
  /\ cur.b.id = None
  /\ cur.err = "InvalidArgument"
  /\ Len(store) > 0

\* The performer a registration log is expected to credit.
ExpectedPerformer(user) ==
  IF ~user.null /\ user.id # None
    THEN [type |-> "User", id |-> user.id]
    ELSE [type |-> "System", id |-> None]

\* C6: a document written by createDoc has performedBy {type: System} when
\* the performer is omitted or null and the supplied performer (one carrying
\* a type of the enumeration) otherwise; the registration logs credit
\* {User, user.id} when user and user.id are present and System otherwise.
C6_PerformerDefaulting ==
  \A p \in Procs :
    LET c == proc[p] IN
    Returned(c) =>
      /\ (c.op = "createDoc" /\ c.doc.performer.null) =>
           c.ret.performedBy = [type |-> "System", id |-> None]
      /\ (c.op = "createDoc" /\ ~c.doc.performer.null
            /\ c.doc.performer.type \in ACTIVITY_PERFORMER_TYPES_ALL) =>
           c.ret.performedBy =
             [type |-> c.doc.performer.type, id |-> c.doc.performer.id]
      /\ c.op \in {"createCustomerRegistrationLog", "createCompanyRegistrationLog"} =>
           c.ret.performedBy = ExpectedPerformer(c.b)
      /\ c.op \in {"createDoc", "createCustomerRegistrationLog",
                   "createCompanyRegistrationLog"} =>
           \E j \in 1 .. Len(store) : store[j] = c.ret

\* C6's case: a customer registration by a user has been written with the
\* User performer.
C6_Witness ==
  /\ cur.op = "createCustomerRegistrationLog"
  /\ Returned(cur)
  /\ cur.b.id = "u1"
  /\ cur.ret.performedBy = [type |-> "User", id |-> "u1"]

\* The fields (all but _id and createdAt) of the document a successful call
\* of an unconditional operation is expected to write.
ExpectedLog(c) ==
  IF c.op = "createInternalNoteLog"
    THEN [activity |-> ActivityOf("InternalNote", "Create", c.a.content, c.a.id),
          performedBy |-> [type |-> "User", id |-> c.b.id],
          coc |-> CocOf(c.a.contentTypeId, c.a.contentType)]
  ELSE IF c.op = "createCustomerRegistrationLog"
    THEN [activity |-> ActivityOf("Customer", "Create", c.a.content, c.a.id),
          performedBy |-> ExpectedPerformer(c.b),
          coc |-> CocOf(c.a.id, "Customer")]
  ELSE [activity |-> ActivityOf("Company", "Create", c.a.content, c.a.id),
        performedBy |-> ExpectedPerformer(c.b),
        coc |-> CocOf(c.a.id, "Company")]

Fields(rec) ==
  [activity |-> rec.activity, performedBy |-> rec.performedBy, coc |-> rec.coc]

Unconditional ==
  {"createInternalNoteLog", "createCustomerRegistrationLog",
   "createCompanyRegistrationLog"}

\* C7: every successful call of createInternalNoteLog or of a registration
\* log appends exactly one new document, whatever the store holds: the
\* document has the expected fields and a fresh _id, the documents already
\* stored stay, and a call that repeats the previous one leaves two documents
\* that differ only in _id and createdAt.
C7_UnconditionalInserts ==
  [][(proc'["p1"] # cur /\ Returned(proc'["p1"]) /\ proc'["p1"].op \in Unconditional) =>
       LET c == proc'["p1"] IN
       /\ Len(store') = Len(store) + 1
       /\ SubSeq(store', 1, Len(store)) = store
       /\ store'[Len(store')] = c.ret
       /\ Fields(c.ret) = ExpectedLog(c)
       /\ \A j \in 1 .. Len(store) : store[j].id # c.ret.id
       /\ (prev'.op = c.op /\ Returned(prev')) =>
            /\ Fields(prev'.ret) = Fields(c.ret)
            /\ prev'.ret.id # c.ret.id
            /\ \E j \in 1 .. Len(store) : store'[j] = prev'.ret]_vars

\* C7's case: createInternalNoteLog has returned twice in a row for the same
\* note and user, and the store holds both documents.
C7_Witness ==
  /\ Twice("createInternalNoteLog")
  /\ Len(store) >= 2
  /\ Fields(store[Len(store)]) = Fields(store[Len(store) - 1])

\* C8: no step of any operation, alone or interleaved with another caller's,
\* removes or changes a stored document: the store only grows at its end.
C8_AppendOnly ==
  [][/\ Len(store') >= Len(store)
     /\ SubSeq(store', 1, Len(store)) = store]_vars

\* C8's case: the store holds documents while one caller's call has failed
\* and the other's has returned after finding its document already stored.
C8_Witness ==
  /\ Len(store) >= 2
  /\ \E p \in Procs : Done(proc[p]) /\ proc[p].err # None
  /\ \E p \in Procs :
       /\ Returned(proc[p])
       /\ proc[p].op \in {"createSegmentLog", "createConversationMessageLog"}
       /\ Inserts(proc[p]) = 0

\* The document handed to the store by a call with a single insert.
Handed(c) ==
  IF c.op = "createDoc" THEN [activity |-> c.doc.activity, coc |-> c.doc.coc]
  ELSE IF c.op = "createSegmentLog"
    THEN [activity |-> ActivityOf("Segment", "Create", c.a.content, c.a.id),
          coc |-> CocOf(c.b.id, c.a.contentType)]
  ELSE [activity |-> ActivityOf("InternalNote", "Create", c.a.content, c.a.id),
        coc |-> CocOf(c.a.contentTypeId, c.a.contentType)]

\* An activity outside the enumerations, or a coc with only one of id and
\* type or with a type outside {Customer, Company}.
BreaksSchema(d) ==
  \/ d.activity.type \notin ACTIVITY_TYPES_ALL
  \/ d.activity.action \notin ACTIVITY_ACTIONS_ALL
  \/ (d.coc.id = None) # (d.coc.type = None)
  \/ d.coc.type \notin COC_CONTENT_TYPES_ALL \cup {None}

C10_PartialFailureNotRolledBack ==
  \A p \in Procs :
    LET c == proc[p] IN
    c.op = "createConversationMessageLog" =>
      /\ \A j, k \in 1 .. Len(c.log) :
           /\ c.log[j].idx \in 1 .. Len(c.b.companyIds) + 1
           /\ j < k => c.log[j].idx <= c.log[k].idx
           /\ (j < k /\ c.log[j].idx = c.log[k].idx) =>
                (k = j + 1 /\ c.log[j].kind = "find" /\ c.log[k].kind = "create"
                   /\ c.log[j].rid = 0)
           /\ ~c.log[j].ok => (j = Len(c.log) /\ Done(c) /\ c.err # None)
      /\ (Done(c) /\ c.log # <<>> /\ c.err = None) =>
           {c.log[j].idx : j \in 1 .. Len(c.log)} = 1 .. Len(c.b.companyIds) + 1
      /\ \A j \in 1 .. Len(c.log) :
           (c.log[j].kind = "create" /\ c.log[j].ok) =>
             \E k \in MessageLogs(c.a.id, Target([c EXCEPT !.i = c.log[j].idx])) :
               store[k].id = c.log[j].rid

\* C10's case: the insert for the second company was rejected after the
\* first company's document had been inserted.
C10_Witness ==
  /\ cur.op = "createConversationMessageLog"
  /\ cur.err = "ValidationError"
  /\ Len(cur.b.companyIds) = 2
  /\ cur.log[Len(cur.log)].idx = 2
  /\ Inserts(cur) = 1

====
